---- MODULE Spec2Model ----
(***************************************************************************)
(* Model of the incremental ingestion pipeline download_and_process_files  *)
(* of download_ncei.py and download_storm_events.py: watermark query,      *)
(* listing and period filter, truncation of the watermark year, the        *)
(* download thread (Fetcher), the bounded queue, the main-thread load loop *)
(* (Loader), interrupt handling and the shutdown sequence.                 *)
(*                                                                         *)
(* A file name is the sequence of the digits of its year (the fixed-width  *)
(* year field of "YYYY.csv.gz" and of "..._dYYYY_c....csv.gz", two digits  *)
(* wide here); the sink is the number of rows it holds per year.           *)
(***************************************************************************)
EXTENDS Integers, Sequences, FiniteSets, TLC

\* ---------------------------------------------------------------- bounds
\* Number of yearly files the archive can come to publish.
MaxPeriod == 4
\* Year of the first file of the archive (two-digit years; 9 and 10 differ
\* in their first digit, so that sorting by name is not sorting by number).
FirstYear == 9
\* Load statements that may raise in one run.
MaxLoadErrors == 1

\* ------------------------------------------------------ program constants
\* Mutant of QueueMaxSize: the queue holds one item.
QueueOfOne == 2 - 1

\* queue.Queue(maxsize=2)
QueueMaxSize == 2

Years == FirstYear..(FirstYear + MaxPeriod - 1)

\* The terminal marker put on the queue (None).
NoneItem == <<>>

\* The name of the archive's file of year y.
FileName(y) == <<y \div 10, y % 10>>

YearNames == {FileName(y) : y \in Years}

\* A character of a file name that is not a digit (it sorts after "9").
NonDigit == 9 + 1

\* A listed name that does not start with a year.
BadName == <<NonDigit, 0>>

AllNames == YearNames \cup {BadName}

\* The name holds a year where the scripts look for one.
HasYear(f) == f[1] \in 0..9 /\ f[2] \in 0..9

\* extract_year_from_filename(f): the year, or None (0) when the pattern
\* does not match. int(f[:4]) / int(f.split(".")[0]) give the same year and
\* raise ValueError where this gives None (see IntRaises).
ExtractYear(f) == IF HasYear(f) THEN f[1] * 10 + f[2] ELSE 0

\* int(...) of the ncei script raises ValueError on some name of the list.
IntRaises(fs) == \E i \in 1..Len(fs) : ~HasYear(fs[i])

\* Rows held by the archive's file f: 100 for the first year, 150 for the
\* second, and so on (a file without a year in its name holds no row of the
\* modelled years).
RowsIn(f) == IF HasYear(f) THEN 50 * (ExtractYear(f) - FirstYear + 2) ELSE 0

\* String comparison of two names of the same width.
NameLess(a, b) == a[1] < b[1] \/ (a[1] = b[1] /\ a[2] < b[2])

RECURSIVE ListedNames(_)
\* Mutant of SortedNames: the listing is used in the order the server gave
\* it (here from the newest file to the oldest), without files.sort().
ListedNames(S) ==
  IF S = {} THEN <<>>
  ELSE LET m == CHOOSE x \in S : \A y \in S : x = y \/ NameLess(y, x)
       IN <<m>> \o ListedNames(S \ {m})

RECURSIVE SortedNames(_)
\* files.sort() applied to the listing S.
SortedNames(S) ==
  IF S = {} THEN <<>>
  ELSE LET m == CHOOSE x \in S : \A y \in S : x = y \/ NameLess(x, y)
       IN <<m>> \o SortedNames(S \ {m})

RECURSIVE SelectSeq2(_, _)
\* [f for f in files if year(f) >= bound]; in the storm script
\* "if file_year and file_year >= bound".
SelectSeq2(fs, bound) ==
  IF fs = <<>> THEN <<>>
  ELSE LET rest == SelectSeq2(Tail(fs), bound)
           file_year == ExtractYear(Head(fs))
       IN IF file_year # 0 /\ file_year >= bound THEN <<Head(fs)>> \o rest ELSE rest

\* Mutant of FilterSince: the since_year itself is dropped.
FilterAfterSince(fs, sy) == IF sy # 0 THEN SelectSeq2(fs, sy + 1) ELSE fs

\* since_year filter: applied only when since_year is truthy.
FilterSince(fs, sy) == IF sy # 0 THEN SelectSeq2(fs, sy) ELSE fs

\* Mutant of FilterMaxYear: the boundary year itself is dropped.
FilterAboveMaxYear(fs, my) == SelectSeq2(fs, my + 1)

\* max_year filter: files of the max year and newer are kept.
FilterMaxYear(fs, my) == SelectSeq2(fs, my)

\* Mutant of MaxDateOf: an absent or empty table yields the first period as
\* watermark instead of None.
MaxDateOrFirst(exists, s) ==
  IF exists /\ \E y \in Years : s[y] > 0
  THEN (CHOOSE y \in Years : s[y] > 0 /\ \A z \in Years : s[z] > 0 => z <= y) * 100 + 12
  ELSE FirstYear * 100 + 12

\* SELECT MAX(date) / MAX(BEGIN_YEARMONTH): 0 stands for None. A date is
\* year * 100 + month; every file holds rows up to month 12 of its year.
MaxDateOf(exists, s) ==
  IF exists /\ \E y \in Years : s[y] > 0
  THEN (CHOOSE y \in Years : s[y] > 0 /\ \A z \in Years : s[z] > 0 => z <= y) * 100 + 12
  ELSE 0

\* max_date.year / max_date // 100
MaxYearOf(d) == d \div 100

\* Mutant of DeleteYear: the DELETE statement is not issued.
DeleteNothing(s, y) == s

\* DELETE FROM table WHERE year = max_year
DeleteYear(s, y) == [s EXCEPT ![y] = 0]

\* Mutant of InsertFile: the INSERT adds no row.
InsertNothing(s, f, ok) == s

\* INSERT INTO table SELECT ... FROM the staged file: one statement, all of
\* the file's rows or (when it raises) none.
InsertFile(s, f, ok) ==
  IF HasYear(f)
  THEN [s EXCEPT ![ExtractYear(f)] = @ + (IF ok THEN RowsIn(f) ELSE 0)]
  ELSE s

\* Mutant of CanPut: the queue is unbounded.
CanPutAlways(q) == TRUE

\* file_queue.put blocks while the queue holds maxsize items.
CanPut(q) == Len(q) < QueueMaxSize

\* Mutant of StopRequested: the download thread does not look at the event.
StopNeverSeen(ev) == FALSE

\* stop_event.is_set() in download_files
StopRequested(ev) == ev

\* Mutant of PollFoundEmpty: the poll gives up although an item is there.
PollGivesUp(q) == TRUE

\* file_queue.get(timeout=1.0) raises queue.Empty: no item was on the queue
\* for the whole timeout.
PollFoundEmpty(q) == q = <<>>

\* Mutant of EmptyPollBreaks: an empty poll always polls again.
EmptyPollContinues(ev) == FALSE

\* except queue.Empty: "if stop_event.is_set(): break", else continue.
EmptyPollBreaks(ev) == ev

\* Mutant of LoopExitPc: the terminal marker is not put when the loop ends.
LoopExitNoMarker == "done"

\* try/finally of download_files: every exit of the loop goes through the
\* finally clause that puts None.
LoopExitPc == "finally"

\* Mutant of AfterLoadPc: a load error leaves the loop.
AfterLoadBreaks(ok) == IF ok THEN "remove" ELSE "cleanup"

\* except/finally of the load: whatever the outcome, the staged file is
\* removed next and the loop goes on.
AfterLoadPc(ok) == "remove"

\* Mutant of RemoveStaged: the staged file is not removed.
RemoveStagedNot(st, f) == st

\* os.remove(temp_file_path)
RemoveStaged(st, f) == st \ {f}

\* Mutant of CleanupDir: the temporary directory is left as it is.
CleanupDirNot(st) == st

\* Exit of "with tempfile.TemporaryDirectory()": everything in it is removed.
CleanupDir(st) == {}

\* Mutant of OpenConn/CloseConn pair: con.close() is not called.
CloseConnNot(n) == n

\* duckdb.connect(db_path): one more connection to the sink is open.
OpenConn(n) == n + 1

\* con.close()
CloseConn(n) == n - 1

\* Mutant of RestoredHandler: the handler of the run stays installed.
KeepHandler(orig) == "graceful"

\* signal.signal(signal.SIGINT, original_sigint_handler)
RestoredHandler(orig) == orig

\* Mutant of ExitStatusOf: the process exits 0 whatever happened.
ExitStatusZero(raised) == 0

\* Exit status of the process: sys.exit(1) on KeyboardInterrupt, 1 as well
\* when another exception leaves main, 0 when main returns.
ExitStatusOf(raised) == IF raised THEN 1 ELSE 0

Max2(a, b) == IF a >= b THEN a ELSE b

VARIABLES
  tool,        \* "ncei" or "storm": which of the two scripts runs
  archive,     \* set of file names the FTP folder lists
  sink,        \* rows per year in the target table
  tableExists, \* the target table exists
  prev,        \* since_year of the previous run when it was a normal run
               \* against the same archive, -1 otherwise
  cpc,         \* position of the main thread
  since,       \* since_year argument of the run (0: not given)
  maxDate,     \* max_date (0: None)
  files,       \* the list of files to download
  sink0,       \* sink when the run started
  deleted,     \* year whose rows the run deleted (0: none)
  stop,        \* stop_event
  handler,     \* SIGINT handler in effect
  queue,       \* file_queue
  fpc,         \* position of the download thread
  fidx,        \* index in files of the download thread's current file
  staging,     \* files present in the temporary directory
  dirExists,   \* the temporary directory exists
  cur,         \* item the Loader is processing
  attempts,    \* names whose load the Loader started, in order
  loaded,      \* names reported "Successfully loaded", in order
  errored,     \* <<name, stage>> of the loads that raised, in order
  removals,    \* removals of each staged file
  reported,    \* names for which task_done was called
  markers,     \* terminal markers put on the queue
  lateFile,    \* a file was put on the queue after the terminal marker
  xferFailed,  \* a transfer raised
  fetched,     \* names whose transfer the download thread started, in order
  afterStop,   \* <<files put on the queue, transfers started>> by the
               \* download thread while the stop event was set, until it
               \* puts the terminal marker
  exitStatus,  \* exit status of the last process (-1: none yet, or running)
  threadStarted, \* the run got as far as starting the download thread
  exc,         \* exception that ended the last process ("none": it returned)
  ftpOpen,     \* the FTP connection is open
  dbOpen,      \* sink connections open
  dbPeak,      \* largest number of sink connections open at once in the run
  origHandler, \* original_sigint_handler
  wmFault      \* failure of a sink statement before the download: "off"
               \* (the sink answers), "armed" (one run may meet a failing
               \* watermark query or connect), "raised" (this run met it),
               \* "truncArmed" (one run may meet a failing truncation),
               \* "truncRaised" (this run met it), "spent"

\* compute_daily_metric.py
VARIABLES
  rawExists,   \* the table ghcn_daily_raw exists
  rawDates,    \* dates that have rows in ghcn_daily_raw
  outputExists, \* the output table exists
  output,      \* rows of the output table per <<zipcode, date>>
  mpc,         \* position of the process
  min_date,    \* min_date of the run
  max_date,    \* max_date of the run
  max_distance_miles, \* max_distance_miles of the run
  date_range,  \* dates the loop has still to process, in order
  deleted_count, \* rows of the range found in the table before the delete
  mexit        \* exit status of the last process (-1: none yet, or running)

\* download_stations.py
VARIABLES
  stationsExists, \* the stations table exists
  stations,    \* station ids in the stations table
  spc,         \* position of the process
  sfile,       \* station ids in the downloaded file
  stations0,   \* <<stationsExists, stations>> when the run started
  sfailed,     \* a statement of the load raised and was printed
  sexit        \* exit status of the last process (-1: none yet, or running)

metricsVars == <<rawExists, rawDates, outputExists, output, mpc, min_date, max_date,
                 max_distance_miles, date_range, deleted_count, mexit>>
stationsVars == <<stationsExists, stations, spc, sfile, stations0, sfailed, sexit>>
otherVars == <<metricsVars, stationsVars>>

pipelineVars == <<tool, archive, sink, tableExists, prev, cpc, since, maxDate, files,
          sink0, deleted, stop, handler, queue, fpc, fidx, staging, dirExists,
          cur, attempts, loaded, errored, removals, reported, markers,
          lateFile, xferFailed, fetched, afterStop, exitStatus,
          threadStarted, exc, ftpOpen, dbOpen, dbPeak, origHandler, wmFault>>

vars == <<pipelineVars, metricsVars, stationsVars>>

sinkVars == <<sink, tableExists>>
runVars == <<since, maxDate, files, sink0, deleted>>
fetchVars == <<fpc, fidx, markers, lateFile, xferFailed, fetched, afterStop>>
loadVars == <<cur, attempts, loaded, errored, reported>>
procVars == <<exitStatus, threadStarted, exc, ftpOpen, dbOpen, dbPeak,
              origHandler>>

SinceChoices == {0} \cup Years

NoRemovals == [f \in AllNames |-> 0]

\* ------------------------------------------------ compute_daily_metric.py
\* Dates of the raw table and of the date arguments, as day numbers.
MaxDay == 3
Dates == 1..MaxDay

\* Zipcodes of zipcode_stations; zipcode z has its nearest station at
\* DistanceMiles(z) miles.
Zipcodes == {1, 2}
DistanceMiles(z) == 15 * z

\* --max-distance-miles: the default of 20 and a larger limit.
DistanceChoices == {20, 40}

\* "1900-01-01" and "2000-01-01", the defaults of min_date: the first lies
\* before every date of the raw table, the second is the first of them.
Date1900 == 1 - 1
Date2000 == 0 + 1

\* --min-date not given.
AutoDate == 0 - 1

NoRows == [k \in Zipcodes \X Dates |-> 0]

\* SELECT DISTINCT zipcode FROM filtered_stations, the view of the stations
\* WHERE distance_miles <= max_distance_miles.
FilteredZipcodes(limit) == {z \in Zipcodes : DistanceMiles(z) <= limit}

\* date BETWEEN min_date AND max_date
Between(d, lo, hi) == lo <= d /\ d <= hi

\* SELECT COUNT(*) FROM output_table WHERE date BETWEEN ...
RECURSIVE CountRows(_, _)
CountRows(out, keys) ==
  IF keys = {} THEN 0
  ELSE LET k == CHOOSE x \in keys : TRUE IN out[k] + CountRows(out, keys \ {k})

CountBetween(out, lo, hi) ==
  CountRows(out, {k \in Zipcodes \X Dates : Between(k[2], lo, hi)})

\* Mutant of DeleteBetween: the rows of the range stay.
DeleteNoRows(out, lo, hi) == out

\* DELETE FROM output_table WHERE date BETWEEN min_date AND max_date
DeleteBetween(out, lo, hi) ==
  [k \in Zipcodes \X Dates |-> IF Between(k[2], lo, hi) THEN 0 ELSE out[k]]

\* SELECT DISTINCT date FROM ghcn_daily_raw WHERE date BETWEEN ... ORDER BY date
RECURSIVE OrderedDates(_)
OrderedDates(ds) ==
  IF ds = {} THEN <<>>
  ELSE LET m == CHOOSE x \in ds : \A y \in ds : x <= y
       IN <<m>> \o OrderedDates(ds \ {m})

\* INSERT INTO output_table: one row per zipcode of filtered_stations for the
\* date (zipcode_dates LEFT JOIN pivoted).
InsertDay(out, zips, d) ==
  [k \in Zipcodes \X Dates |-> IF k[1] \in zips /\ k[2] = d THEN out[k] + 1 ELSE out[k]]

\* SELECT MAX(date) FROM the output table (0: NULL).
MaxExistingDate(out) ==
  LET ds == {k[2] : k \in {x \in Zipcodes \X Dates : out[x] > 0}}
  IN IF ds = {} THEN 0 ELSE CHOOSE m \in ds : \A y \in ds : y <= m

\* main: min_date from --min-date, or from the output table.
MinDateOf(arg, exists, out) ==
  IF arg # AutoDate THEN arg
  ELSE IF ~exists THEN Date2000
  ELSE IF MaxExistingDate(out) # 0 THEN MaxExistingDate(out)
  ELSE Date1900

MetricsIdle ==
  /\ rawExists = FALSE
  /\ rawDates = {}
  /\ outputExists = FALSE
  /\ output = NoRows
  /\ mpc = "idle"
  /\ min_date = 0
  /\ max_date = 0
  /\ max_distance_miles = 0
  /\ date_range = <<>>
  /\ deleted_count = 0
  /\ mexit = -1

\* ---------------------------------------------------- download_stations.py
\* Station ids a stations file can hold.
StationIds == {1, 2, 3}

StationsIdle ==
  /\ stationsExists = FALSE
  /\ stations = {}
  /\ spc = "idle"
  /\ sfile = {}
  /\ stations0 = <<FALSE, {}>>
  /\ sfailed = FALSE
  /\ sexit = -1

\* The state before the first process, with the archive listing a and the
\* watermark query's failure off or armed.
InitWith(a, fault) ==
  /\ tool \in {"ncei", "storm"}
  /\ archive = a
  /\ wmFault = fault
  /\ sink = [y \in Years |-> 0]
  /\ tableExists = FALSE
  /\ prev = -1
  /\ cpc = "idle"
  /\ since = 0
  /\ maxDate = 0
  /\ files = <<>>
  /\ sink0 = sink
  /\ deleted = 0
  /\ stop = FALSE
  /\ handler = "default"
  /\ queue = <<>>
  /\ fpc = "none"
  /\ fidx = 1
  /\ staging = {}
  /\ dirExists = FALSE
  /\ cur = NoneItem
  /\ attempts = <<>>
  /\ loaded = <<>>
  /\ errored = <<>>
  /\ removals = NoRemovals
  /\ reported = {}
  /\ markers = 0
  /\ lateFile = FALSE
  /\ xferFailed = FALSE
  /\ fetched = <<>>
  /\ afterStop = <<0, 0>>
  /\ exitStatus = -1
  /\ threadStarted = FALSE
  /\ exc = "none"
  /\ ftpOpen = FALSE
  /\ dbOpen = 0
  /\ dbPeak = 0
  /\ origHandler = "default"
  /\ MetricsIdle
  /\ StationsIdle

Init == InitWith({FileName(FirstYear)}, "off")

\* The sink may fail the watermark query of one run.
InitFaults == InitWith({FileName(FirstYear)}, "armed")

\* The archive also lists a file whose name holds no year.
InitNames == InitWith({FileName(FirstYear), BadName}, "off")


\* ------------------------------------------------------------ helpers
\* Removals observed when the staging directory goes from st to st2.
CountRemovals(st, st2) ==
  [f \in AllNames |-> removals[f] + (IF f \in st /\ f \notin st2 THEN 1 ELSE 0)]

\* The run met no interrupt, no load error and no transfer error.
RunNormal == ~stop /\ errored = <<>> /\ ~xferFailed

\* Mutant of FetcherBlocked: the join has no timeout and returns only when
\* the thread has ended.
JoinWithoutTimeout == FALSE

\* The download thread is inside a call that can last: a transfer, or a put
\* on a full queue.
FetcherBlocked ==
  \/ fpc = "transfer"
  \/ fpc \in {"put", "finally"} /\ ~CanPut(queue)

\* ------------------------------------------------------- the environment
\* A new yearly file appears in the archive.
Publish ==
  /\ cpc = "idle"
  /\ Cardinality(archive \cap YearNames) < MaxPeriod
  /\ archive' = archive \cup {FileName(FirstYear + Cardinality(archive \cap YearNames))}
  /\ prev' = -1
  /\ UNCHANGED <<otherVars, tool, wmFault, procVars, sinkVars, cpc, runVars, stop, handler, queue, fetchVars,
                 staging, dirExists, loadVars, removals>>

\* SIGINT while signal_handler is installed: stop_event.set().
Interrupt ==
  /\ handler = "graceful"
  /\ ~stop
  /\ stop' = TRUE
  /\ UNCHANGED <<otherVars, tool, wmFault, procVars, archive, sinkVars, prev, cpc, runVars, handler, queue,
                 fetchVars, staging, dirExists, loadVars, removals>>

\* ------------------------------------------------------- the main thread
\* An exception e leaves main before the run has changed anything.
StartAbort(e) ==
  /\ exitStatus' = ExitStatusOf(TRUE)
  /\ exc' = e
  /\ threadStarted' = FALSE
  /\ stop' = FALSE
  /\ errored' = <<>>
  /\ dbPeak' = OpenConn(dbOpen)
  /\ prev' = -1
  /\ UNCHANGED <<otherVars, tool, archive, sinkVars, cpc, runVars, handler, queue, fetchVars,
                 staging, dirExists, cur, attempts, loaded, reported, removals,
                 ftpOpen, dbOpen, origHandler>>

\* The watermark query, the FTP listing, the sort and the since_year filter
\* (whose int(f[:4]) raises in the ncei script on a name without a year).
\* The watermark query may fail: when duckdb.connect raises ("connect"), the
\* finally clause's con.close() raises UnboundLocalError, which leaves main;
\* when a statement raises ("query"), the except clause prints the error and
\* the run goes on with max_date = None.
StartRun(sy) ==
  /\ cpc = "idle"
  /\ \E outcome \in (IF wmFault = "armed" THEN {"ok", "query", "connect"} ELSE {"ok"}) :
       IF outcome = "connect"
       THEN StartAbort("UnboundLocalError") /\ wmFault' = "spent"
       ELSE IF tool = "ncei" /\ sy # 0 /\ IntRaises(SortedNames(archive))
       THEN StartAbort("ValueError") /\ wmFault' = wmFault
       ELSE /\ since' = sy
            /\ maxDate' = (IF outcome = "query" THEN 0 ELSE MaxDateOf(tableExists, sink))
            /\ wmFault' = (IF outcome = "query" THEN "raised" ELSE wmFault)
            /\ files' = FilterSince(SortedNames(archive), sy)
            /\ sink0' = sink
            /\ deleted' = 0
            /\ cpc' = IF maxDate' # 0 THEN "truncate" ELSE "setup"
            /\ stop' = FALSE
            /\ errored' = <<>>
            /\ exitStatus' = -1
            /\ threadStarted' = FALSE
            /\ exc' = "none"
            /\ dbOpen' = CloseConn(OpenConn(dbOpen))
            /\ dbPeak' = OpenConn(dbOpen)
            /\ ftpOpen' = TRUE
            /\ UNCHANGED <<otherVars, tool, archive, sinkVars, prev, handler, queue, fetchVars,
                           staging, dirExists, cur, attempts, loaded, reported,
                           removals, origHandler>>

\* The process ends with main returning (raised = FALSE) or with an
\* exception (raised = TRUE): its connections and its daemon download thread
\* end with it.
ProcessEnd(raised) ==
  /\ exitStatus' = ExitStatusOf(raised)
  /\ prev' = (IF ~raised /\ RunNormal THEN since ELSE -1)
  /\ cpc' = "idle"
  /\ since' = 0 /\ maxDate' = 0 /\ files' = <<>> /\ sink0' = sink' /\ deleted' = 0
  /\ queue' = <<>>
  /\ fpc' = "none" /\ fidx' = 1 /\ markers' = 0 /\ lateFile' = FALSE
  /\ xferFailed' = FALSE /\ fetched' = <<>> /\ afterStop' = <<0, 0>>
  /\ cur' = NoneItem /\ attempts' = <<>> /\ loaded' = <<>>
  /\ reported' = {}
  /\ removals' = NoRemovals
  /\ ftpOpen' = FALSE
  /\ dbOpen' = 0
  /\ handler' = "default"
  /\ origHandler' = "default"
  /\ wmFault' = (IF wmFault \in {"raised", "truncRaised"} THEN "spent" ELSE wmFault)
  /\ UNCHANGED <<otherVars, tool, archive, tableExists, staging, dirExists, stop, errored,
                 threadStarted, dbPeak>>

\* "if max_date:": the rows of the max year are deleted and the files older
\* than the max year are dropped (int(f.split(".")[0]) of the ncei script
\* raises on a name without a year, after the delete). A statement of the
\* truncation that raises is caught and printed: nothing is deleted and the
\* run goes on.
Truncate ==
  /\ cpc = "truncate"
  /\ \E outcome \in (IF wmFault = "truncArmed" THEN {"ok", "raise"} ELSE {"ok"}) :
       LET my == MaxYearOf(maxDate)
           del == outcome = "ok" /\ tableExists /\ sink[my] > 0
       IN
       /\ sink' = (IF del THEN DeleteYear(sink, my) ELSE sink)
       /\ IF tool = "ncei" /\ IntRaises(files)
          THEN exc' = "ValueError" /\ ProcessEnd(TRUE)
          ELSE /\ deleted' = (IF del THEN my ELSE 0)
               /\ files' = FilterMaxYear(files, my)
               /\ cpc' = "setup"
               /\ dbOpen' = CloseConn(OpenConn(dbOpen))
               /\ dbPeak' = Max2(dbPeak, OpenConn(dbOpen))
               /\ wmFault' = (IF outcome = "raise" THEN "truncRaised" ELSE wmFault)
               /\ UNCHANGED <<exitStatus, threadStarted, exc, ftpOpen, origHandler>>
               /\ UNCHANGED <<otherVars, tool, archive, tableExists, prev, since, maxDate, sink0,
                              stop, handler, queue, fetchVars, staging, dirExists,
                              loadVars, removals>>

\* The temporary directory, the queue, the stop event, the SIGINT handler,
\* the sink connection (the storm script creates the table here) and the
\* start of the download thread.
Setup ==
  /\ cpc = "setup"
  /\ dirExists' = TRUE
  /\ staging' = {}
  /\ queue' = <<>>
  /\ stop' = FALSE
  /\ origHandler' = handler
  /\ handler' = "graceful"
  /\ dbOpen' = OpenConn(dbOpen)
  /\ dbPeak' = Max2(dbPeak, dbOpen')
  /\ tableExists' = (tableExists \/ tool = "storm")
  /\ threadStarted' = TRUE
  /\ fpc' = "check"
  /\ fidx' = 1
  /\ cpc' = "poll"
  /\ UNCHANGED <<exitStatus, exc, ftpOpen>>
  /\ UNCHANGED <<otherVars, tool, wmFault, archive, sink, prev, runVars, markers, lateFile, xferFailed,
                 fetched, afterStop, loadVars, removals>>

\* file_queue.get returned an item: None leaves the loop.
Dequeue ==
  /\ cpc = "poll"
  /\ queue # <<>>
  /\ queue' = Tail(queue)
  /\ IF Head(queue) = NoneItem
     THEN cpc' = "cleanup" /\ cur' = cur
     ELSE cpc' = "load" /\ cur' = Head(queue)
  /\ UNCHANGED <<otherVars, tool, wmFault, procVars, archive, sinkVars, prev, runVars, stop, handler, fetchVars,
                 staging, dirExists, attempts, loaded, errored, reported, removals>>

\* queue.Empty with the stop event set leaves the loop (without the event
\* the loop polls again, which changes nothing).
PollTimeout ==
  /\ cpc = "poll"
  /\ PollFoundEmpty(queue)
  /\ EmptyPollBreaks(stop)
  /\ cpc' = "cleanup"
  /\ UNCHANGED <<otherVars, tool, wmFault, procVars, archive, sinkVars, prev, runVars, stop, handler, queue,
                 fetchVars, staging, dirExists, loadVars, removals>>

\* The load of the dequeued file: table check or creation and count before
\* ("pre"), the insert from the staged file ("insert"), the statements after
\* it ("post"); stage names the statement that raises, "ok" that none does.
Load(stage) ==
  /\ cpc = "load"
  /\ stage # "ok" => Len(errored) < MaxLoadErrors
  /\ attempts' = Append(attempts, cur)
  /\ tableExists' = (tableExists \/ stage # "pre")
  /\ sink' = (IF stage = "pre" THEN sink ELSE InsertFile(sink, cur, stage # "insert"))
  /\ loaded' = (IF stage = "ok" THEN Append(loaded, cur) ELSE loaded)
  /\ errored' = (IF stage = "ok" THEN errored ELSE Append(errored, <<cur, stage>>))
  /\ cpc' = AfterLoadPc(stage = "ok")
  /\ UNCHANGED <<otherVars, tool, wmFault, procVars, archive, prev, runVars, stop, handler, queue, fetchVars,
                 staging, dirExists, cur, reported, removals>>

\* finally: os.remove(temp_file_path); file_queue.task_done().
Remove ==
  /\ cpc = "remove"
  /\ staging' = RemoveStaged(staging, cur)
  /\ removals' = CountRemovals(staging, staging')
  /\ reported' = reported \cup {cur}
  /\ cur' = NoneItem
  /\ cpc' = "poll"
  /\ UNCHANGED <<otherVars, tool, wmFault, procVars, archive, sinkVars, prev, runVars, stop, handler, queue,
                 fetchVars, dirExists, attempts, loaded, errored>>

\* Exit of the with block: the temporary directory is removed.
Cleanup ==
  /\ cpc = "cleanup"
  /\ staging' = CleanupDir(staging)
  /\ removals' = CountRemovals(staging, staging')
  /\ dirExists' = FALSE
  /\ cpc' = "ftpquit"
  /\ UNCHANGED <<otherVars, tool, wmFault, procVars, archive, sinkVars, prev, runVars, stop, handler, queue,
                 fetchVars, loadVars>>

\* ftp.quit()
FtpQuit ==
  /\ cpc = "ftpquit"
  /\ cpc' = "join"
  /\ ftpOpen' = FALSE
  /\ UNCHANGED <<exitStatus, threadStarted, exc, dbOpen, dbPeak, origHandler>>
  /\ UNCHANGED <<otherVars, tool, wmFault, archive, sinkVars, prev, runVars, stop, handler, queue,
                 fetchVars, staging, dirExists, loadVars, removals>>

\* The download thread is not alive, or the join returns because it ended.
JoinDone ==
  /\ cpc = "join"
  /\ fpc = "done"
  /\ cpc' = "closedb"
  /\ UNCHANGED <<otherVars, tool, wmFault, procVars, archive, sinkVars, prev, runVars, stop, handler, queue,
                 fetchVars, staging, dirExists, loadVars, removals>>

\* download_thread.join(timeout=5.0) returns with the thread still alive.
JoinTimeout ==
  /\ cpc = "join"
  /\ FetcherBlocked
  /\ cpc' = "closedb"
  /\ UNCHANGED <<otherVars, tool, wmFault, procVars, archive, sinkVars, prev, runVars, stop, handler, queue,
                 fetchVars, staging, dirExists, loadVars, removals>>

\* con.close()
CloseDb ==
  /\ cpc = "closedb"
  /\ cpc' = "final"
  /\ dbOpen' = CloseConn(dbOpen)
  /\ UNCHANGED <<exitStatus, threadStarted, exc, ftpOpen, dbPeak, origHandler>>
  /\ UNCHANGED <<otherVars, tool, wmFault, archive, sinkVars, prev, runVars, stop, handler, queue,
                 fetchVars, staging, dirExists, loadVars, removals>>

\* The final row count when the stop event is not set (a new connection,
\* left open when the count raises because the table does not exist) and the
\* restore of the original SIGINT handler; the function returns.
Finish ==
  /\ cpc = "final"
  /\ dbOpen' = (IF stop THEN dbOpen
                ELSE IF tableExists THEN CloseConn(OpenConn(dbOpen))
                ELSE OpenConn(dbOpen))
  /\ dbPeak' = (IF stop THEN dbPeak ELSE Max2(dbPeak, OpenConn(dbOpen)))
  /\ handler' = RestoredHandler(origHandler)
  /\ cpc' = "returned"
  /\ UNCHANGED <<exitStatus, threadStarted, exc, ftpOpen, origHandler>>
  /\ UNCHANGED <<otherVars, tool, wmFault, archive, sinkVars, prev, runVars, stop, queue, fetchVars,
                 staging, dirExists, loadVars, removals>>

\* main returns and the process ends.
Exit ==
  /\ cpc = "returned"
  /\ exc' = "none"
  /\ sink' = sink
  /\ ProcessEnd(FALSE)

\* SIGINT while Python's default handler is in effect (before signal_handler
\* is installed, or after the original handler is restored):
\* KeyboardInterrupt is raised in the main thread and caught in main.
KeyboardInterrupt ==
  /\ cpc \in {"truncate", "setup", "returned"}
  /\ handler = "default"
  /\ exc' = "KeyboardInterrupt"
  /\ sink' = sink
  /\ ProcessEnd(TRUE)

\* The run cannot start: ftplib.FTP, login, cwd or the listing raises after
\* the watermark query, and the exception leaves main.
StartFail ==
  /\ cpc = "idle"
  /\ StartAbort("ftplib.all_errors")
  /\ wmFault' = wmFault

\* ---------------------------------------------------- the download thread
\* Top of the for loop: the list is exhausted, or the stop event is set, or
\* the body is entered.
FetchNext ==
  /\ fpc = "check"
  /\ fpc' = (IF fidx > Len(files) \/ StopRequested(stop) THEN LoopExitPc ELSE "open")
  /\ UNCHANGED <<otherVars, tool, wmFault, procVars, archive, sinkVars, prev, cpc, runVars, stop, handler, queue,
                 fidx, markers, lateFile, xferFailed, fetched, afterStop, staging,
                 dirExists, loadVars, removals>>

\* open(temp_file_path, "wb") and the start of ftp.retrbinary: open raises
\* when the temporary directory is gone, which leaves the loop.
OpenStaged ==
  /\ fpc = "open"
  /\ IF ~dirExists
     THEN fpc' = LoopExitPc /\ xferFailed' = TRUE /\ UNCHANGED <<staging, fetched, afterStop>>
     ELSE /\ fpc' = "transfer"
          /\ staging' = staging \cup {files[fidx]}
          /\ fetched' = Append(fetched, files[fidx])
          /\ afterStop' = (IF stop THEN <<afterStop[1], afterStop[2] + 1>> ELSE afterStop)
          /\ UNCHANGED xferFailed
  /\ UNCHANGED <<otherVars, tool, wmFault, procVars, archive, sinkVars, prev, cpc, runVars, stop, handler, queue,
                 fidx, markers, lateFile, dirExists, loadVars, removals>>

\* ftp.retrbinary returned.
TransferDone ==
  /\ fpc = "transfer"
  /\ fpc' = "postcheck"
  /\ UNCHANGED <<otherVars, tool, wmFault, procVars, archive, sinkVars, prev, cpc, runVars, stop, handler, queue,
                 fidx, markers, lateFile, xferFailed, fetched, afterStop, staging,
                 dirExists, loadVars, removals>>

\* ftp.retrbinary raised: the exception leaves the loop.
TransferFail ==
  /\ fpc = "transfer"
  /\ fpc' = LoopExitPc
  /\ xferFailed' = TRUE
  /\ UNCHANGED <<otherVars, tool, wmFault, procVars, archive, sinkVars, prev, cpc, runVars, stop, handler, queue,
                 fidx, markers, lateFile, fetched, afterStop, staging, dirExists,
                 loadVars, removals>>

\* The stop check after the transfer: the file is removed and the loop left
\* (os.remove raises when the file is gone, which leaves the loop as well).
PostCheck ==
  /\ fpc = "postcheck"
  /\ IF StopRequested(stop)
     THEN /\ fpc' = LoopExitPc
          /\ staging' = RemoveStaged(staging, files[fidx])
          /\ removals' = CountRemovals(staging, staging')
          /\ xferFailed' = (xferFailed \/ files[fidx] \notin staging)
     ELSE fpc' = "put" /\ UNCHANGED <<staging, removals, xferFailed>>
  /\ UNCHANGED <<otherVars, tool, wmFault, procVars, archive, sinkVars, prev, cpc, runVars, stop, handler, queue,
                 fidx, markers, lateFile, fetched, afterStop, dirExists, loadVars>>

\* file_queue.put((filename, temp_file_path))
PutFile ==
  /\ fpc = "put"
  /\ CanPut(queue)
  /\ queue' = Append(queue, files[fidx])
  /\ lateFile' = (lateFile \/ markers > 0)
  /\ afterStop' = (IF stop THEN <<afterStop[1] + 1, afterStop[2]>> ELSE afterStop)
  /\ fidx' = fidx + 1
  /\ fpc' = "check"
  /\ UNCHANGED <<otherVars, tool, wmFault, procVars, archive, sinkVars, prev, cpc, runVars, stop, handler,
                 markers, xferFailed, fetched, staging, dirExists, loadVars, removals>>

\* finally: file_queue.put(None)
PutMarker ==
  /\ fpc = "finally"
  /\ CanPut(queue)
  /\ queue' = Append(queue, NoneItem)
  /\ markers' = markers + 1
  /\ fpc' = "done"
  /\ afterStop' = <<0, 0>>
  /\ UNCHANGED <<otherVars, tool, wmFault, procVars, archive, sinkVars, prev, cpc, runVars, stop, handler, fidx,
                 lateFile, xferFailed, fetched, staging, dirExists, loadVars, removals>>

Next ==
  \/ Publish
  \/ Interrupt
  \/ \E sy \in SinceChoices : StartRun(sy)
  \/ Truncate
  \/ Setup
  \/ Dequeue
  \/ PollTimeout
  \/ \E stage \in {"ok", "pre", "insert", "post"} : Load(stage)
  \/ Remove
  \/ Cleanup
  \/ FtpQuit
  \/ JoinDone
  \/ JoinTimeout
  \/ CloseDb
  \/ Finish
  \/ Exit
  \/ KeyboardInterrupt
  \/ StartFail
  \/ FetchNext
  \/ OpenStaged
  \/ TransferDone
  \/ TransferFail
  \/ PostCheck
  \/ PutFile
  \/ PutMarker

Spec == Init /\ [][Next]_vars

\* ------------------------------------------------ compute_daily_metric.py
\* The download pipeline loaded raw rows of date d (between two runs: the
\* database file has one writing process at a time).
RawLoaded(d) ==
  /\ mpc = "idle"
  /\ rawExists' = TRUE
  /\ rawDates' = rawDates \cup {d}
  /\ UNCHANGED <<pipelineVars, stationsVars, outputExists, output, mpc, min_date, max_date,
                 max_distance_miles, date_range, deleted_count, mexit>>

\* main and the head of compute_daily_metrics: the dates, the connection and
\* the check of the required tables (ValueError when the raw table is
\* missing; zipcode_stations is there).
MetricsMain(argMin, argMax, limit) ==
  /\ mpc = "idle"
  /\ min_date' = MinDateOf(argMin, outputExists, output)
  /\ max_date' = argMax
  /\ max_distance_miles' = limit
  /\ deleted_count' = 0
  /\ date_range' = <<>>
  /\ IF rawExists
     THEN mpc' = "prepare" /\ mexit' = -1
     ELSE mpc' = "idle" /\ mexit' = 1
  /\ UNCHANGED <<pipelineVars, stationsVars, rawExists, rawDates, outputExists, output>>

\* "if output_exists:" the rows of the range are counted and deleted, else
\* the table is created.
PrepareOutput ==
  /\ mpc = "prepare"
  /\ IF outputExists
     THEN /\ deleted_count' = CountBetween(output, min_date, max_date)
          /\ output' = DeleteBetween(output, min_date, max_date)
          /\ UNCHANGED outputExists
     ELSE /\ outputExists' = TRUE
          /\ UNCHANGED <<output, deleted_count>>
  /\ mpc' = "select"
  /\ UNCHANGED <<pipelineVars, stationsVars, rawExists, rawDates, min_date, max_date,
                 max_distance_miles, date_range, mexit>>

\* The view filtered_stations, the zipcodes and the dates to process.
SelectDates ==
  /\ mpc = "select"
  /\ date_range' = OrderedDates({d \in rawDates : Between(d, min_date, max_date)})
  /\ mpc' = "insert"
  /\ UNCHANGED <<pipelineVars, stationsVars, rawExists, rawDates, outputExists, output,
                 min_date, max_date, max_distance_miles, deleted_count, mexit>>

\* One turn of "for current_date_row in date_range".
InsertDate ==
  /\ mpc = "insert"
  /\ date_range # <<>>
  /\ output' = InsertDay(output, FilteredZipcodes(max_distance_miles), Head(date_range))
  /\ date_range' = Tail(date_range)
  /\ UNCHANGED <<pipelineVars, stationsVars, rawExists, rawDates, outputExists, mpc,
                 min_date, max_date, max_distance_miles, deleted_count, mexit>>

\* The loop is over: the summary is printed and the connection closed.
MetricsSummary ==
  /\ mpc = "insert"
  /\ date_range = <<>>
  /\ mpc' = "done"
  /\ UNCHANGED <<pipelineVars, stationsVars, rawExists, rawDates, outputExists, output,
                 min_date, max_date, max_distance_miles, date_range, deleted_count,
                 mexit>>

\* "Metric computation completed successfully!"
MetricsExit ==
  /\ mpc = "done"
  /\ mpc' = "idle"
  /\ mexit' = 0
  /\ UNCHANGED <<pipelineVars, stationsVars, rawExists, rawDates, outputExists, output,
                 min_date, max_date, max_distance_miles, date_range, deleted_count>>

\* A statement raises: "except Exception" prints and raises again, main
\* exits with status 1.
MetricsRaise ==
  /\ mpc \in {"prepare", "select", "insert"}
  /\ mpc' = "idle"
  /\ mexit' = 1
  /\ date_range' = <<>>
  /\ UNCHANGED <<pipelineVars, stationsVars, rawExists, rawDates, outputExists, output,
                 min_date, max_date, max_distance_miles, deleted_count>>

MetricsNext ==
  \/ \E d \in Dates : RawLoaded(d)
  \/ \E argMin \in Dates \cup {AutoDate}, argMax \in Dates, limit \in DistanceChoices :
       MetricsMain(argMin, argMax, limit)
  \/ PrepareOutput
  \/ SelectDates
  \/ InsertDate
  \/ MetricsSummary
  \/ MetricsExit
  \/ MetricsRaise

\* The pipeline stays idle.
MetricsInit == Init /\ tool = "ncei"

MetricsSpec == MetricsInit /\ [][MetricsNext]_vars

\* ---------------------------------------------------- download_stations.py
\* The FTP session, the download of the stations file (holding the stations
\* ids) and the connection to the database.
StationsStart(ids) ==
  /\ spc = "idle"
  /\ sfile' = ids
  /\ stations0' = <<stationsExists, stations>>
  /\ sfailed' = FALSE
  /\ sexit' = -1
  /\ spc' = "drop"
  /\ UNCHANGED <<pipelineVars, metricsVars, stationsExists, stations>>

\* The FTP session or the download raises: the process ends before it
\* connects to the database.
StationsFtpFail ==
  /\ spc = "idle"
  /\ sexit' = 1
  /\ sfailed' = FALSE
  /\ stations0' = <<stationsExists, stations>>
  /\ UNCHANGED <<pipelineVars, metricsVars, stationsExists, stations, spc, sfile>>

\* "if table_exists:" DROP TABLE
DropTable ==
  /\ spc = "drop"
  /\ IF stationsExists
     THEN stationsExists' = FALSE /\ stations' = {}
     ELSE UNCHANGED <<stationsExists, stations>>
  /\ spc' = "create"
  /\ UNCHANGED <<pipelineVars, metricsVars, sfile, stations0, sfailed, sexit>>

\* CREATE TABLE
CreateTable ==
  /\ spc = "create"
  /\ stationsExists' = TRUE
  /\ stations' = {}
  /\ spc' = "insert"
  /\ UNCHANGED <<pipelineVars, metricsVars, sfile, stations0, sfailed, sexit>>

\* INSERT INTO the table SELECT ... FROM read_csv(the file)
InsertStations ==
  /\ spc = "insert"
  /\ stations' = stations \cup sfile
  /\ spc' = "count"
  /\ UNCHANGED <<pipelineVars, metricsVars, stationsExists, sfile, stations0, sfailed, sexit>>

\* SELECT COUNT(*) and "Successfully loaded"
CountStations ==
  /\ spc = "count"
  /\ spc' = "finally"
  /\ UNCHANGED <<pipelineVars, metricsVars, stationsExists, stations, sfile, stations0,
                 sfailed, sexit>>

\* A statement of the try block raises before it changes anything: "except
\* Exception" prints "Error processing" and the finally clause follows.
StationsRaise ==
  /\ spc \in {"drop", "create", "insert", "count"}
  /\ sfailed' = TRUE
  /\ spc' = "finally"
  /\ UNCHANGED <<pipelineVars, metricsVars, stationsExists, stations, sfile, stations0, sexit>>

\* finally: the file is removed, DESCRIBE prints the schema (and raises when
\* the table is not there) and the connection is closed.
StationsFinally ==
  /\ spc = "finally"
  /\ sexit' = (IF stationsExists THEN 0 ELSE 1)
  /\ sfile' = {}
  /\ spc' = "idle"
  /\ UNCHANGED <<pipelineVars, metricsVars, stationsExists, stations, stations0, sfailed>>

StationsNext ==
  \/ \E ids \in SUBSET StationIds \ {{}} : StationsStart(ids)
  \/ StationsFtpFail
  \/ DropTable
  \/ CreateTable
  \/ InsertStations
  \/ CountStations
  \/ StationsRaise
  \/ StationsFinally

\* The pipeline stays idle.
StationsInit == Init /\ tool = "ncei"

StationsSpec == StationsInit /\ [][StationsNext]_vars


\* ---------------------------------------------------------------- claims
Range(q) == {q[i] : i \in 1..Len(q)}

\* The years of q are strictly ascending.
Ascending(q) ==
  \A i, j \in 1..Len(q) : i < j => ExtractYear(q[i]) < ExtractYear(q[j])

\* The archive's files of year y and later, in name order.
ArchiveFrom(y) == SortedNames({f \in archive : ExtractYear(f) >= y})

\* C1: the sink never holds the rows of one year's file more than once, and
\* whenever the Loader is about to load a file the sink holds no row of that
\* file's year (the rows of the watermark year were deleted before its file
\* is loaded again).
C1_NoDuplicateRows ==
  /\ \A y \in Years : sink[y] <= RowsIn(FileName(y))
  /\ cpc = "load" => sink[ExtractYear(cur)] = 0

\* C1 witness: a run deleted the rows of its watermark year and has loaded
\* that year's file again.
C1_Witness ==
  /\ deleted # 0
  /\ FileName(deleted) \in Range(loaded)
  /\ sink[deleted] = RowsIn(FileName(deleted))

\* C2: a normal run that follows a normal run with the same since_year
\* against the same archive leaves the sink as it found it.
C2_Idempotent ==
  (cpc = "returned" /\ RunNormal /\ prev = since) => sink = sink0

\* C3: a normal run without since_year that finds a watermark year P deletes
\* the rows of P, fetches and loads exactly the archive's files of P and
\* later, in order, and leaves the rows of the years before P as they were.
C3_Resume ==
  (cpc = "returned" /\ RunNormal /\ since = 0 /\ maxDate # 0) =>
    LET P == MaxYearOf(maxDate) IN
      /\ deleted = P
      /\ fetched = ArchiveFrom(P)
      /\ loaded = ArchiveFrom(P)
      /\ \A f \in archive : ExtractYear(f) < P => f \notin Range(fetched)
      /\ \A y \in Years : y < P => sink[y] = sink0[y]
      /\ \A f \in Range(fetched) : sink[ExtractYear(f)] = RowsIn(f)

\* C3 witness: the sink held rows up to P = FirstYear + 1, the archive holds
\* the files of P-1 .. P+2, and the run has loaded P, P+1, P+2.
C3_Witness ==
  /\ cpc = "returned" /\ RunNormal /\ since = 0
  /\ maxDate # 0 /\ MaxYearOf(maxDate) = FirstYear + 1
  /\ sink0[FirstYear] > 0 /\ sink0[FirstYear + 1] > 0
  /\ archive = {FileName(FirstYear + i) : i \in 0..3}
  /\ loaded = <<FileName(FirstYear + 1), FileName(FirstYear + 2), FileName(FirstYear + 3)>>


\* C4: the download thread puts at most one terminal marker, it has put
\* exactly one when it ends (whether the list was exhausted, the stop event
\* seen or a transfer raised), none before its loop ended, and the marker is
\* the last item of the queue: no file is put after it.
C4_OneMarkerLast ==
  /\ markers <= 1
  /\ fpc = "done" => markers = 1
  /\ fpc \in {"check", "open", "transfer", "postcheck", "put", "finally"} => markers = 0
  /\ ~lateFile
  /\ \A i \in 1..Len(queue) : queue[i] = NoneItem => i = Len(queue)

\* C4 witness: the thread ended after a transfer raised, and it put the marker.
C4_Witness ==
  /\ fpc = "done" /\ markers = 1 /\ xferFailed /\ ~stop
  /\ Len(fetched) = 2 /\ Len(files) > 2

\* C5: the list of files to download is ascending by year, and the files the
\* Loader loads are a prefix of that list, in its order; the files reported
\* loaded are ascending too.
C5_Ordering ==
  /\ Ascending(files)
  /\ Len(attempts) <= Len(files)
  /\ attempts = SubSeq(files, 1, Len(attempts))
  /\ Ascending(loaded)
  /\ Range(loaded) \subseteq Range(attempts)

\* C5 witness: three files, whose names differ in their first digit, were
\* loaded one after the other while the download thread was still fetching.
C5_Witness ==
  /\ Len(attempts) = 3
  /\ attempts[1] = FileName(FirstYear) /\ attempts[2] = FileName(FirstYear + 1)
  /\ fpc = "transfer"

\* C6: the queue never holds more than QueueMaxSize items.
C6_Backpressure == Len(queue) <= QueueMaxSize

\* C6 witness: the queue is full of staged files and the download thread is
\* held at its put.
C6_Witness ==
  /\ Len(queue) = QueueMaxSize
  /\ NoneItem \notin Range(queue)
  /\ fpc = "put"
  /\ cpc = "load"


\* Names whose load raised.
ErroredNames == {errored[i][1] : i \in 1..Len(errored)}

C9_CancelConsistent ==
  (cpc = "returned" /\ stop) =>
    /\ \A y \in Years : sink[y] \in {0, RowsIn(FileName(y))}
    /\ staging = {}

\* C9 witness: an interrupted run returns with some files loaded, others not
\* attempted, while the download thread is still in a transfer.
C9_Witness ==
  /\ cpc = "returned" /\ stop
  /\ loaded # <<>>
  /\ Len(attempts) < Len(files)
  /\ fpc = "transfer"

\* Outcomes of a listed file at the end of the run. A file counts as errored
\* when its load raised, and also when its download was started and it was
\* never handed to the Loader although no interrupt came (its transfer raised).
IsLoaded(f) == f \in Range(loaded)
IsErrored(f) ==
  \/ f \in ErroredNames
  \/ f \in Range(fetched) /\ f \notin Range(attempts) /\ ~stop
IsSkipped(f) == f \notin Range(files)
IsCancelled(f) == f \in Range(files) /\ f \notin Range(attempts) /\ stop

\* C10: when the run returns every listed file is in exactly one of the
\* outcomes loaded, errored, skipped by the filters, not attempted because of
\* the interrupt; so a file that was neither downloaded nor loaded was
\* filtered out or the stop event is set.
C10_EveryFileAccounted ==
  cpc = "returned" =>
    \A f \in archive :
      Cardinality({k \in 1..4 :
         \/ k = 1 /\ IsLoaded(f)
         \/ k = 2 /\ IsErrored(f)
         \/ k = 3 /\ IsSkipped(f)
         \/ k = 4 /\ IsCancelled(f)}) = 1


\* C11: a transfer that raises is contained to its file: when the download
\* thread ends without interrupt, it has started the transfer of every file
\* of the list.
C11_TransferFailureContained ==
  (fpc = "done" /\ ~stop) => fetched = files

\* The download thread takes a step of its own.
FetcherStep == fpc' # fpc /\ fpc # "none" /\ fpc' # "none"

\* C12: a stop check of the download thread that finds the event set (before
\* a file, or right after a transfer) leaves the loop: no transfer is
\* started, nothing is put on the queue but the marker, and the file just
\* downloaded is not in the staging directory afterwards.
C12_StopChecks ==
  [][(FetcherStep /\ stop /\ fpc \in {"check", "postcheck"}) =>
        /\ fpc' = "finally"
        /\ fetched' = fetched
        /\ queue' = queue
        /\ fpc = "postcheck" => files[fidx] \notin staging']_vars

\* C12 witness: the event was set during a transfer; the download thread has
\* removed the file it had just downloaded and left the loop, while the
\* Loader is still in its loop.
C12_Witness ==
  /\ stop /\ fpc = "finally" /\ ~xferFailed
  /\ cpc \in {"poll", "load", "remove"}
  /\ fetched # <<>>
  /\ removals[fetched[Len(fetched)]] = 1
  /\ fetched[Len(fetched)] \notin Range(attempts) \cup Range(queue) \cup {cur}


\* C16: while the download thread writes a file, no other step touches it:
\* the file (and the staging directory) stays in place for the whole
\* transfer.
C16_NoTouchWhileWriting ==
  fpc = "transfer" => (dirExists /\ files[fidx] \in staging)

\* The files of the archive that pass both period filters.
Eligible ==
  {f \in archive : /\ since # 0 => ExtractYear(f) >= since
                   /\ maxDate # 0 => ExtractYear(f) >= MaxYearOf(maxDate)}

\* C20: once the filters have run, the list of files to download holds
\* exactly the listed files whose year is >= since_year (when given) and >=
\* the year of the watermark (when there is one); a file of the boundary
\* year is kept.
C20_PeriodFilter ==
  cpc \notin {"idle", "truncate"} => Range(files) = Eligible

\* C20 witness: a run with a since_year and a watermark whose list starts
\* with the file of the boundary year (the larger of the two) and leaves
\* older files of the archive out.
C20_Witness ==
  /\ cpc = "setup" /\ since # 0 /\ maxDate # 0
  /\ since > MaxYearOf(maxDate)
  /\ files # <<>> /\ files[1] = FileName(since)
  /\ FileName(MaxYearOf(maxDate)) \in archive \ Range(files)


\* C14: at most one sink connection is open at any time of a run: none is
\* open when the Loader's connection is about to be opened (the watermark
\* and truncation connections are closed), none is open when the final
\* count is about to open its own (the Loader's is closed), and no step of
\* the download thread touches the sink or its connections.
C14_OneSinkConnection ==
  /\ [](dbOpen <= 1 /\ dbPeak <= 1)
  /\ [](cpc \in {"setup", "final"} => dbOpen = 0)
  /\ [][FetcherStep => UNCHANGED <<sink, tableExists, dbOpen, dbPeak>>]_vars

\* C14 witness: a run that opened all four connections in turn (watermark,
\* truncation, Loader, final count) has returned.
C14_Witness ==
  /\ cpc = "returned" /\ ~stop /\ deleted # 0 /\ loaded # <<>>
  /\ dbPeak = 1 /\ dbOpen = 0

\* C15: the FTP connection is not closed while the download thread is
\* performing a transfer on it.
C15_FtpClosedAfterFetcher ==
  fpc = "transfer" => ftpOpen

\* C17: the SIGINT handler of the run only sets the stop event (the main
\* thread, the download thread and the process go on as they were), and
\* when the function has returned the handler in effect is the one the
\* process had before the run.
C17_SignalHandling ==
  /\ [][(stop' /\ ~stop) =>
          UNCHANGED <<cpc, fpc, handler, exitStatus, sinkVars, queue, staging,
                      dirExists, ftpOpen, dbOpen>>]_vars
  /\ [](cpc = "returned" => handler = "default")

\* C17 witness: a run cancelled by SIGINT has returned and the handler of
\* before the run is in effect again.
C17_Witness ==
  cpc = "returned" /\ stop /\ handler = "default" /\ fetched # <<>>

\* A process has ended and no other has started since.
Ended == cpc = "idle" /\ exitStatus # -1

\* C18: the exit status is non-zero when the run could not start (it ended
\* before the download thread was started) and zero in every other case.
C18_ExitStatus ==
  Ended => (exitStatus # 0 <=> ~threadStarted)

\* C18 amended: the exit status is non-zero exactly when the run could not
\* start or a SIGINT arrived while the default handler was in effect (before
\* signal_handler is installed or after the original handler is restored);
\* it is zero in every other case, load errors and an interrupt taken by
\* signal_handler included.
C18_ExitStatusAmended ==
  Ended => (exitStatus # 0 <=> (~threadStarted \/ exc = "KeyboardInterrupt"))

\* C18 witness: a run with a load error that was cancelled through
\* signal_handler has exited with status 0.
C18_Witness ==
  Ended /\ exitStatus = 0 /\ threadStarted /\ stop /\ errored # <<>>


\* A run in which every transfer and every load step terminates and both
\* threads keep being scheduled: each step of the Loader's loop and of the
\* download thread is taken when it stays possible.
LiveSpec ==
  /\ Spec
  /\ WF_vars(Dequeue) /\ WF_vars(PollTimeout)
  /\ WF_vars(\E stage \in {"ok", "pre", "insert", "post"} : Load(stage))
  /\ WF_vars(Remove)
  /\ WF_vars(FetchNext) /\ WF_vars(OpenStaged)
  /\ WF_vars(TransferDone \/ TransferFail)
  /\ WF_vars(PostCheck) /\ WF_vars(PutFile) /\ WF_vars(PutMarker)

\* C13: the Loader's loop, once entered, is eventually left, with or
\* without an interrupt.
C13_LoaderTerminates ==
  (cpc \in {"poll", "load", "remove"}) ~> (cpc = "cleanup")

\* C13 witness: the loop was left on the terminal marker after every file
\* of a list of two or more was loaded.
C13_Witness ==
  /\ cpc = "cleanup" /\ ~stop /\ markers = 1 /\ queue = <<>>
  /\ Len(files) >= 2 /\ loaded = files


\* The archive lists a file whose name holds no year, next to yearly files.
SpecNames == InitNames /\ [][Next]_vars

\* C19: a listed file whose name holds no year is never downloaded, and no
\* run is ended by it.
C19_UnparsableExcluded ==
  BadName \notin Range(fetched) /\ exc # "ValueError"


\* The main thread has left the Loader's loop and the run is still on.
LoaderLeft == cpc \in {"cleanup", "ftpquit", "join", "closedb", "final", "returned"}

\* C22: an interrupt never ends in-flight work by force: the function does
\* not return (and the process does not end) while the download thread is
\* in the middle of a transfer.
C22_NoForcedTermination ==
  cpc = "returned" => fpc # "transfer"

\* C26: when the run starts with the table absent, or present but empty,
\* the watermark is None: the run deletes nothing, never enters the
\* truncation, and its list is every listed file that passes since_year.
C26_NoWatermark ==
  /\ cpc = "truncate" => (tableExists /\ \E y \in Years : sink[y] > 0)
  /\ (cpc = "setup" /\ (~tableExists \/ \A y \in Years : sink0[y] = 0)) =>
       /\ maxDate = 0 /\ deleted = 0 /\ sink = sink0
       /\ files = FilterSince(SortedNames(archive), since)
       /\ since = 0 => Range(files) = archive

\* C26 witness: a run found the table present but empty (an earlier run
\* created it and loaded nothing) and lists the whole archive of two or
\* more files.
C26_Witness ==
  /\ cpc = "setup" /\ tableExists /\ \A y \in Years : sink0[y] = 0
  /\ maxDate = 0 /\ since = 0 /\ Len(files) >= 2

\* C27: whenever the Loader is about to take the next item, every file it
\* took before is gone from the staging directory, whether its load
\* succeeded or raised.
C27_RemovedBeforeNext ==
  cpc = "poll" => (Range(attempts) \cap staging = {} /\ Range(attempts) = reported)

\* C27 witness: the Loader is back at the queue after one load that raised
\* and one that succeeded; both files were removed once.
C27_Witness ==
  /\ cpc = "poll" /\ dirExists
  /\ errored # <<>> /\ loaded # <<>>
  /\ \A f \in Range(attempts) : removals[f] = 1 /\ f \notin staging

\* C28: a run that deleted the rows of its watermark year has that year's
\* file, when the archive lists it, in its list of files to download.
C28_DeletedIsRefetched ==
  (cpc = "setup" /\ deleted # 0 /\ FileName(deleted) \in archive) =>
     FileName(deleted) \in Range(files)

\* C30: no staged file is left on the queue when the run ends.
C30_NoFileLeftOnQueue ==
  cpc = "returned" => \A i \in 1..Len(queue) : queue[i] = NoneItem


MainSpec ==
  /\ Spec
  /\ WF_vars(Dequeue) /\ WF_vars(PollTimeout)
  /\ WF_vars(\E stage \in {"ok", "pre", "insert", "post"} : Load(stage))
  /\ WF_vars(Remove) /\ WF_vars(Cleanup) /\ WF_vars(FtpQuit)
  /\ WF_vars(JoinDone \/ JoinTimeout)
  /\ WF_vars(CloseDb) /\ WF_vars(Finish)
  /\ WF_vars(FetchNext) /\ WF_vars(OpenStaged) /\ WF_vars(PostCheck)
  /\ WF_vars(PutFile) /\ WF_vars(PutMarker)

C24_ExitOnEmptyPoll ==
  /\ (cpc = "poll" /\ stop /\ queue = <<>>) ~> (cpc = "cleanup" \/ queue # <<>>)
  /\ [][(cpc = "poll" /\ queue = <<>> /\ cpc' = "cleanup") =>
          (stop /\ UNCHANGED <<queue, markers, fpc>>)]_vars

\* C24 witness: the Loader has left its loop with no terminal marker put,
\* while the download thread is inside a transfer.
C24_Witness ==
  /\ cpc = "cleanup" /\ stop /\ queue = <<>> /\ markers = 0
  /\ fpc = "transfer"


RECURSIVE SumRows(_, _)
SumRows(s, Y) ==
  IF Y = {} THEN 0
  ELSE LET y == CHOOSE z \in Y : TRUE IN s[y] + SumRows(s, Y \ {y})

\* SELECT COUNT(*) FROM table
TotalRows(s) == SumRows(s, Years)

\* C25: each successful load adds exactly the rows of its file
\* (rows_after - rows_before), and a run without error or interrupt that
\* starts from an empty sink with no since_year, against an archive of two
\* files of 100 and 150 rows, attempts the two files in order, errors on
\* none, ends with 100 + 150 = 250 rows and with the second year as
\* watermark.
C25_TwoFileRun ==
  /\ [][(cpc = "load" /\ loaded' # loaded) =>
          TotalRows(sink') - TotalRows(sink) = RowsIn(cur)]_vars
  /\ []((/\ cpc = "returned" /\ RunNormal /\ since = 0
         /\ TotalRows(sink0) = 0
         /\ archive = {FileName(FirstYear), FileName(FirstYear + 1)}) =>
           /\ attempts = <<FileName(FirstYear), FileName(FirstYear + 1)>>
           /\ loaded = attempts /\ errored = <<>>
           /\ sink[FirstYear] = 100 /\ sink[FirstYear + 1] = 150
           /\ TotalRows(sink) = 250
           /\ MaxYearOf(MaxDateOf(tableExists, sink)) = FirstYear + 1)

\* C25 witness: such a run has returned with 250 rows in the sink.
C25_Witness ==
  /\ cpc = "returned" /\ RunNormal /\ since = 0
  /\ TotalRows(sink0) = 0
  /\ archive = {FileName(FirstYear), FileName(FirstYear + 1)}
  /\ Len(attempts) = 2 /\ TotalRows(sink) = 250


\* The sink may fail the watermark query of one run.
SpecFaults == InitFaults /\ [][Next]_vars

\* The sink may fail the truncation of one run.
InitTruncFaults == InitWith({FileName(FirstYear)}, "truncArmed")

SpecTruncFaults == InitTruncFaults /\ [][Next]_vars

\* C21: a run whose watermark query failed goes no further: the download
\* thread is not started, no file is downloaded, no row is inserted or
\* deleted.
C21_FatalBeforeTransfer ==
  wmFault = "raised" =>
    (~threadStarted /\ fetched = <<>> /\ sink = sink0 /\ cpc \in {"setup", "idle"})


\* The staged files on the queue.
QueuedFiles == Range(queue) \ {NoneItem}

\* The file the download thread has opened, is downloading or is about to
\* put.
FetcherFile ==
  IF fpc \in {"transfer", "postcheck", "put", "finally", "done"} /\ fidx <= Len(files)
  THEN {files[fidx]} ELSE {}

C34_ErroredAddsNothing ==
  [][(cpc = "load" /\ errored' # errored) => sink' = sink]_vars

C31_AtMostOneAfterStop ==
  /\ afterStop[1] <= 1
  /\ afterStop[2] <= 1
  /\ (afterStop # <<0, 0>>) => stop

\* C31 witness: the event was set between the stop check after a transfer
\* and the put; the file was put and the thread is about to put the
\* terminal marker.
C31_Witness ==
  /\ afterStop[1] = 1 /\ fpc = "finally" /\ stop
  /\ cpc \in {"poll", "load", "remove"}

\* A transfer that started with the stop event set, the event having been
\* set between the stop check and the open; the second stop check discarded
\* the file.
C31_TransferAfterStop ==
  afterStop[2] = 1 /\ fpc = "finally" /\ stop /\ ~xferFailed


\* C33: a run whose truncation raised does not load the file of the
\* watermark year on top of the rows that are still in the sink: no year
\* ends up with more rows than its file holds.
C33_FailedTruncationNoReload ==
  wmFault = "truncRaised" =>
    \A y \in Years : sink[y] <= RowsIn(FileName(y))


\* The rows of the output table whose date is in the range of the run.
InRange(d) == Between(d, min_date, max_date)

\* C36: a finished run of compute_daily_metrics leaves, for the dates of
\* its range, exactly one row per zipcode within the distance limit and date
\* with raw data, and no other row; while it inserts, no row of a date it
\* has still to process is in the table (the delete came first); no step
\* changes a row whose date is outside the range.
C36_RerunLeavesOneRowEach ==
  /\ [](mpc = "done" =>
          \A k \in Zipcodes \X Dates :
            InRange(k[2]) =>
              output[k] = (IF k[1] \in FilteredZipcodes(max_distance_miles) /\ k[2] \in rawDates
                           THEN 1 ELSE 0))
  /\ [](mpc = "insert" =>
          \A k \in Zipcodes \X Dates :
            InRange(k[2]) /\ k[2] \in Range(date_range) => output[k] = 0)
  /\ [][IF mpc = "idle" THEN output' = output
        ELSE \A k \in Zipcodes \X Dates : ~InRange(k[2]) => output'[k] = output[k]]_vars

\* C36 witness: a finished run that found rows of its range in the table,
\* left rows in the range, and whose table holds a row outside the range.
C36_Witness ==
  /\ mpc = "done"
  /\ deleted_count > 0
  /\ \E k \in Zipcodes \X Dates : InRange(k[2]) /\ output[k] = 1
  /\ \E k \in Zipcodes \X Dates : ~InRange(k[2]) /\ output[k] = 1


\* C37: when a statement of the reload raised, a stations table that held
\* rows before the run still exists and still holds rows after it.
C37_FailedReloadKeepsTable ==
  (sfailed /\ spc \in {"finally", "idle"} /\ stations0[1] /\ stations0[2] # {}) =>
    (stationsExists /\ stations # {})

====
